---------------------------- MODULE Spec2Model ----------------------------
(***************************************************************************)
(* Model of the excelauto tools:                                           *)
(*   insert_images.py        process_workbook / insert_images_to_sheet     *)
(*   create_person_sheets.py main (roster-driven sheet provisioning)       *)
(*   remove_extra_sheets.py  remove_sheets                                 *)
(*                                                                         *)
(* Representation.  Text is a sequence of one-character strings, so that   *)
(* the file-name pattern, strip() and the digit extraction are computed.   *)
(* Column widths are integers in hundredths of a character unit and row    *)
(* heights are integers in twentieths of a point; a pixel count is the     *)
(* integer the float computation of the source yields on those values.     *)
(* An optional number is <<>> (Python's None) or <<v>>; a dictionary is a   *)
(* function whose domain is the set of keys it holds.                      *)
(***************************************************************************)
EXTENDS Integers, Sequences, FiniteSets, TLC

VARIABLES
    pc,           \* position of the running tool
    call,         \* arguments of the function under call (SpecFn)
    ret,          \* its return value (SpecFn)
    ws,           \* worksheet handed to insert_images_to_sheet (SpecInsert)
    image_paths,  \* image list handed to insert_images_to_sheet (SpecInsert)
    file,         \* the workbook file on disk
    file0,        \* the workbook file as it was before the run (history)
    wb,           \* the workbook object in memory
    images_dir,   \* directory entries of the images directory
    image_map,    \* load_images_by_person's result, in dict order
    names,        \* keys of image_map still to be visited by process_workbook
    info_ws,      \* rows 3.. of columns C..E of the roster sheet
    entries,      \* create_person_sheets.main: entries still to be written
    existing_names, \* create_person_sheets.main: existing_names
    sheet_names   \* remove_sheets: names still to be deleted

vars == <<pc, call, ret, ws, image_paths, file, file0, wb, images_dir,
          image_map, names, info_ws, entries, existing_names, sheet_names>>

None == <<>>
Some(v) == <<v>>

Max(a, b) == IF a >= b THEN a ELSE b
Min(a, b) == IF a <= b THEN a ELSE b

RECURSIVE SumSeq(_)
SumSeq(s) == IF s = <<>> THEN 0 ELSE Head(s) + SumSeq(Tail(s))

-----------------------------------------------------------------------------
(* Unit conversion                                                         *)

\* 8.38 character units, in hundredths
DEFAULT_COLUMN_WIDTH == 838
\* 15.0 points, in twentieths of a point
DEFAULT_ROW_HEIGHT == 300

\* column_width_to_pixels: width in hundredths of a character unit or None.
\* floor(w*12 + 0.5) and floor(w*7 + 5) on w = width/100; neither argument of
\* floor is within 0.01 of an integer unless w is an integer, so the float
\* result is the exact one.
column_width_to_pixels(width) ==
    LET w == IF width = None \/ width[1] <= 0 THEN DEFAULT_COLUMN_WIDTH
                                              ELSE width[1]
    IN  IF w < 100 THEN (w * 12 + 50) \div 100
                   ELSE (w * 7 + 500) \div 100

\* lookup "col_dim.width if col_dim and col_dim.width is not None else None"
DimValue(dims, key) == IF key \in DOMAIN dims THEN dims[key] ELSE None

\* per-column pixel widths of the region (the list column_widths_px)
ColumnWidthsPx(sheet, columns) ==
    [i \in 1..Len(columns) |->
        column_width_to_pixels(DimValue(sheet.column_dimensions, columns[i]))]

merged_columns_width_in_pixels(sheet, columns) ==
    SumSeq(ColumnWidthsPx(sheet, columns))

\* row_height_to_pixels summed over the rows and truncated by int():
\* each row is height*4/3 pixels, height = h/20 points.
RowHeightTwentieths(height) ==
    IF height = None \/ height[1] <= 0 THEN DEFAULT_ROW_HEIGHT ELSE height[1]

merged_rows_height_in_pixels(sheet, rows) ==
    (SumSeq([i \in 1..Len(rows) |->
               RowHeightTwentieths(DimValue(sheet.row_dimensions, rows[i]))]) * 4)
        \div 60

\* openpyxl.utils.units.pixels_to_EMU as called at the anchor
pixels_to_EMU(px) == px * 9525
EMU_to_pixels(emu) == emu \div 9525

-----------------------------------------------------------------------------
(* Width allocation (insert_images_to_sheet, lines 141-149)                *)

\* Python's round() of the non-negative rational n/d: half to even
PyRound(n, d) ==
    LET q == n \div d
        r == n % d
    IN  IF 2 * r < d THEN q
        ELSE IF 2 * r > d THEN q + 1
        ELSE IF q % 2 = 0 THEN q ELSE q + 1

\* right boundary of image idx (1-based); cumulative_width is
\* total_width_px * idx / max_images, exact in floating point for
\* max_images <= 2
RightBoundary(total_width_px, max_images, idx) ==
    IF idx = 0 THEN 0 ELSE PyRound(total_width_px * idx, max_images)

WidthAllocations_perItemRound(total_width_px, max_images) ==
    [idx \in 1..max_images |-> Max(PyRound(total_width_px, max_images), 1)]

WidthAllocations(total_width_px, max_images) ==
    [idx \in 1..max_images |->
        Max(RightBoundary(total_width_px, max_images, idx)
              - RightBoundary(total_width_px, max_images, idx - 1), 1)]

-----------------------------------------------------------------------------
(* Horizontal anchor resolution (insert_images_to_sheet, lines 169-191)    *)

\* the for loop over column_widths_px, from column i with the remainder rem
RECURSIVE Walk_inclusive(_, _, _)
Walk_inclusive(column_widths_px, i, rem) ==
    IF i > Len(column_widths_px)
      THEN [col_offset |-> i - 1, remaining_offset |-> rem]
    ELSE IF rem <= column_widths_px[i]
      THEN [col_offset |-> i - 1, remaining_offset |-> rem]
    ELSE Walk_inclusive(column_widths_px, i + 1, rem - column_widths_px[i])

RECURSIVE Walk(_, _, _)
Walk(column_widths_px, i, rem) ==
    IF i > Len(column_widths_px)
      THEN [col_offset |-> i - 1, remaining_offset |-> rem]
    ELSE IF rem < column_widths_px[i]
      THEN [col_offset |-> i - 1, remaining_offset |-> rem]
    ELSE Walk(column_widths_px, i + 1, rem - column_widths_px[i])

\* the boundary guard of step 2
Clamp_noGuard(column_widths_px, a) == a

Clamp_lastWidth(column_widths_px, a) ==
    IF a.col_offset >= Len(column_widths_px)
      THEN [col_offset |-> Len(column_widths_px) - 1,
            remaining_offset |-> column_widths_px[Len(column_widths_px)]]
      ELSE a

Clamp(column_widths_px, a) ==
    IF a.col_offset >= Len(column_widths_px)
      THEN [col_offset |-> Len(column_widths_px) - 1,
            remaining_offset |->
                Max(column_widths_px[Len(column_widths_px)] - 1, 0)]
      ELSE a

ResolveAnchor(offset_px, column_widths_px) ==
    Clamp(column_widths_px, Walk(column_widths_px, 1, offset_px))

-----------------------------------------------------------------------------
(* insert_images_to_sheet                                                  *)

\* coordinate_from_string("B19")
TARGET_CELL == <<"B", 19>>
TARGET_COLUMNS == <<"B", "C", "D", "E">>
TARGET_ROWS == <<19, 20, 21>>

ColumnLetters == <<"A", "B", "C", "D", "E", "F">>
column_index_from_string(letter) ==
    CHOOSE i \in 1..Len(ColumnLetters) : ColumnLetters[i] = letter

\* the image object registered by ws.add_image: its source, its size and
\* its OneCellAnchor (marker col/colOff/row/rowOff and extent cx/cy, in EMU)
XLImage(path, image_width_px, total_height_px, col, remaining_offset, row) ==
    [src |-> path,
     width |-> image_width_px,
     height |-> total_height_px,
     anchor |-> [col |-> col,
                 colOff |-> pixels_to_EMU(remaining_offset),
                 row |-> row,
                 rowOff |-> 0,
                 cx |-> pixels_to_EMU(image_width_px),
                 cy |-> pixels_to_EMU(total_height_px)]]

\* offset_px after one more image (line 223)
NextOffset_noAdvance(offset_px, image_width_px) == offset_px

NextOffset(offset_px, image_width_px) == offset_px + image_width_px

\* the body of "for idx, path in enumerate(image_paths[:max_images])",
\* from image idx (1-based) with the accumulated offset_px
RECURSIVE PlaceImages(_, _, _, _, _, _, _, _, _)
PlaceImages(sheet, paths, idx, offset_px, width_allocations, column_widths_px, total_height_px, col_idx, row_idx) ==
    IF idx > Len(paths) THEN sheet
    ELSE
      LET image_width_px == width_allocations[idx]
          a == ResolveAnchor(offset_px, column_widths_px)
          img == XLImage(paths[idx], image_width_px, total_height_px,
                         col_idx + a.col_offset, a.remaining_offset, row_idx)
      IN  PlaceImages([sheet EXCEPT !.images = Append(@, img)], paths,
                      idx + 1, NextOffset(offset_px, image_width_px),
                      width_allocations, column_widths_px, total_height_px,
                      col_idx, row_idx)

\* the guard of line 129
RegionDegenerate(total_width_px, total_height_px) ==
    total_width_px <= 0 \/ total_height_px <= 0

insert_images_to_sheet(sheet, paths, cell_address, columns, rows) ==
    IF paths = <<>> THEN sheet
    ELSE
      LET col_idx == column_index_from_string(cell_address[1]) - 1
          row_idx == cell_address[2] - 1
          total_width_px == merged_columns_width_in_pixels(sheet, columns)
          total_height_px == merged_rows_height_in_pixels(sheet, rows)
          column_widths_px == ColumnWidthsPx(sheet, columns)
          max_images == Min(Len(paths), 2)
      IN  IF RegionDegenerate(total_width_px, total_height_px) THEN sheet
          ELSE PlaceImages(sheet, SubSeq(paths, 1, max_images), 1, 0,
                           WidthAllocations(total_width_px, max_images),
                           column_widths_px, total_height_px, col_idx,
                           row_idx)

-----------------------------------------------------------------------------
(* SpecFn: the two algorithms of insert_images_to_sheet applied to inputs  *)
(* drawn from bounded sets                                                 *)

MaxTotalWidth == 12
MaxCols == 3
MaxColPx == 3
MaxOffset == 10

Idle == <<>>

AllocCalls ==
    [fn : {"width_allocations"}, total_width_px : 1..MaxTotalWidth,
     max_images : 1..2]

PxLists == UNION {[1..n -> 0..MaxColPx] : n \in 1..MaxCols}

AnchorCalls ==
    [fn : {"resolve_anchor"}, offset_px : 0..MaxOffset,
     column_widths_px : PxLists]

FnIdle ==
    /\ ws = Idle /\ image_paths = Idle /\ file = Idle /\ file0 = Idle
    /\ wb = Idle /\ images_dir = Idle /\ image_map = Idle /\ names = Idle
    /\ info_ws = Idle /\ entries = Idle /\ existing_names = Idle
    /\ sheet_names = Idle

InitFn ==
    /\ pc = "call"
    /\ call \in AllocCalls \cup AnchorCalls
    /\ ret = Idle
    /\ FnIdle

CallWidthAllocations ==
    /\ pc = "call"
    /\ call.fn = "width_allocations"
    /\ ret' = WidthAllocations(call.total_width_px, call.max_images)
    /\ pc' = "returned"
    /\ UNCHANGED <<call, ws, image_paths, file, file0, wb, images_dir,
                   image_map, names, info_ws, entries, existing_names,
                   sheet_names>>

CallResolveAnchor ==
    /\ pc = "call"
    /\ call.fn = "resolve_anchor"
    /\ ret' = ResolveAnchor(call.offset_px, call.column_widths_px)
    /\ pc' = "returned"
    /\ UNCHANGED <<call, ws, image_paths, file, file0, wb, images_dir,
                   image_map, names, info_ws, entries, existing_names,
                   sheet_names>>

NextFn == CallWidthAllocations \/ CallResolveAnchor

SpecFn == InitFn /\ [][NextFn]_vars

AllocReturned == pc = "returned" /\ call.fn = "width_allocations"
AnchorReturned == pc = "returned" /\ call.fn = "resolve_anchor"

\* C1: for N in {1,2} and totalWidthPx >= N the N allocated widths sum
\* exactly to totalWidthPx and every allocated width is >= 1.
C1_AllocationsSumToTotal ==
    (AllocReturned /\ call.total_width_px >= call.max_images) =>
        /\ Len(ret) = call.max_images
        /\ SumSeq(ret) = call.total_width_px
        /\ \A i \in 1..Len(ret) : ret[i] >= 1

\* an odd total split in two: round(2.5) = 2, so the parts are 2 and 3
C1_Witness ==
    /\ AllocReturned
    /\ call.total_width_px = 5 /\ call.max_images = 2
    /\ ret = <<2, 3>>

\* C3: for every offsetPx >= 0 and every list of non-negative column pixel
\* widths with a positive sum, the resolved anchor column is a column of the
\* region and the intra-column offset k satisfies
\* 0 <= k <= max(width of the anchor column - 1, 0).
C3_AnchorInsideRegion ==
    (AnchorReturned /\ SumSeq(call.column_widths_px) > 0) =>
        /\ ret.col_offset \in 0..(Len(call.column_widths_px) - 1)
        /\ ret.remaining_offset >= 0
        /\ ret.remaining_offset <=
               Max(call.column_widths_px[ret.col_offset + 1] - 1, 0)

\* an offset beyond the region, brought back to the last column
C3_Witness ==
    /\ AnchorReturned
    /\ call.column_widths_px = <<2, 0, 3>>
    /\ call.offset_px = 7
    /\ ret = [col_offset |-> 2, remaining_offset |-> 2]

\* C6: for offsetPx = totalWidthPx and any larger offset the anchor is the
\* region's last column with intra-column offset max(lastColumnWidth - 1, 0).
C6_BoundaryClampsToLastColumn ==
    (AnchorReturned /\ call.offset_px >= SumSeq(call.column_widths_px)) =>
        /\ ret.col_offset = Len(call.column_widths_px) - 1
        /\ ret.remaining_offset =
              Max(call.column_widths_px[Len(call.column_widths_px)] - 1, 0)

\* the offset is exactly the region's total width
C6_Witness ==
    /\ AnchorReturned
    /\ call.column_widths_px = <<3, 2>>
    /\ call.offset_px = 5
    /\ ret = [col_offset |-> 1, remaining_offset |-> 1]

-----------------------------------------------------------------------------
(* SpecInsert: one call of insert_images_to_sheet on a worksheet           *)

MaxPaths == 3

Digits == <<"0", "1", "2", "3", "4", "5", "6", "7", "8", "9">>

File(stem, suffix) == [stem |-> stem, suffix |-> suffix, is_file |-> TRUE]
Directory(stem, suffix) == [stem |-> stem, suffix |-> suffix, is_file |-> FALSE]

ImagePath(k) == File(<<"a", Digits[k + 1]>>, ".png")

\* stored widths: none, 0, 0.04 (0 px), 0.05 (1 px), 0.13 (2 px), 10.75 (80 px)
WidthValues == {None, Some(0), Some(4), Some(5), Some(13), Some(1075)}

ColumnDims ==
    UNION {[D -> WidthValues] : D \in SUBSET {"B", "C", "D", "E"}}

\* stored heights: none at all; 0.2 pt on every row (0 px in total);
\* 0.75 pt, default and 20.25 pt (1 + 20 + 27 px)
RowDims ==
    { <<>>,
      [r \in {19, 20, 21} |-> Some(4)],
      (19 :> Some(15)) @@ (21 :> Some(405)) }

OldImage ==
    XLImage(File(<<"o", "l", "d">>, ".png"), 10, 10, 0, 0, 0)

InitCells == [c \in {"A1", "B19"} |-> <<"x">>]

Worksheets ==
    [column_dimensions : ColumnDims, row_dimensions : RowDims,
     images : {<<>>, <<OldImage>>}, cells : {InitCells}]

InsertIdle ==
    /\ ret = Idle /\ file = Idle /\ file0 = Idle
    /\ wb = Idle /\ images_dir = Idle /\ image_map = Idle /\ names = Idle
    /\ info_ws = Idle /\ entries = Idle /\ existing_names = Idle
    /\ sheet_names = Idle

InitInsert ==
    /\ pc = "call"
    /\ ws \in Worksheets
    /\ image_paths \in {[i \in 1..k |-> ImagePath(i)] : k \in 0..MaxPaths}
    /\ call = [fn |-> "insert_images_to_sheet", ws |-> ws]
    /\ InsertIdle

CallInsertImagesToSheet ==
    /\ pc = "call"
    /\ call.fn = "insert_images_to_sheet"
    /\ ws' = insert_images_to_sheet(ws, image_paths, TARGET_CELL,
                                    TARGET_COLUMNS, TARGET_ROWS)
    /\ pc' = "returned"
    /\ UNCHANGED <<call, ret, image_paths, file, file0, wb, images_dir,
                   image_map, names, info_ws, entries, existing_names,
                   sheet_names>>

NextInsert == CallInsertImagesToSheet

SpecInsert == InitInsert /\ [][NextInsert]_vars

\* images a run added to a sheet: those after the ones it held before
AddedImages(before, after) ==
    SubSeq(after.images, Len(before.images) + 1, Len(after.images))

\* an anchor converted back to a pixel position from the region's left
\* edge: the widths of the region columns left of the anchor column plus
\* the intra-column offset
AbsPos(sheet, anchor) ==
    LET px == ColumnWidthsPx(sheet, TARGET_COLUMNS)
        first == column_index_from_string(TARGET_CELL[1]) - 1
    IN  SumSeq(SubSeq(px, 1, anchor.col - first))
          + EMU_to_pixels(anchor.colOff)

TotalWidthPx(sheet) == merged_columns_width_in_pixels(sheet, TARGET_COLUMNS)
TotalHeightPx(sheet) == merged_rows_height_in_pixels(sheet, TARGET_ROWS)

InsertReturned == pc = "returned" /\ call.fn = "insert_images_to_sheet"

\* the call placed images: it was given some and the region is not degenerate
Placed ==
    /\ InsertReturned
    /\ image_paths # <<>>
    /\ TotalWidthPx(call.ws) > 0 /\ TotalHeightPx(call.ws) > 0

\* C2: when 2 images are placed in a region with totalWidthPx >= 2, the
\* first image's anchor is pixel 0 of the region, the second image's anchor
\* converted back to a pixel position equals the first image's width, and
\* that position plus the second image's width equals totalWidthPx.
C2_GapFreeTiling ==
    (Placed /\ Len(image_paths) >= 2 /\ TotalWidthPx(call.ws) >= 2) =>
        LET new == AddedImages(call.ws, ws)
        IN  /\ Len(new) = 2
            /\ AbsPos(ws, new[1].anchor) = 0
            /\ AbsPos(ws, new[2].anchor) = new[1].width
            /\ AbsPos(ws, new[2].anchor) + new[2].width = TotalWidthPx(ws)
            /\ new[1].anchor.cx = pixels_to_EMU(new[1].width)
            /\ new[2].anchor.cx = pixels_to_EMU(new[2].width)

\* widths 0, 2, 1, 80 px: 83 px split into 42 and 41, the second image
\* starting 39 px into the last column
C2_Witness ==
    /\ Placed /\ Len(image_paths) >= 2
    /\ ColumnWidthsPx(ws, TARGET_COLUMNS) = <<0, 2, 1, 80>>
    /\ Len(AddedImages(call.ws, ws)) = 2
    /\ AddedImages(call.ws, ws)[2].anchor.col = 4
    /\ AddedImages(call.ws, ws)[2].anchor.colOff = pixels_to_EMU(39)

\* C4: for offsetPx = 0 and any region that passes the totalWidthPx > 0
\* guard, including one whose first column converts to 0 pixels, the anchor
\* column is the region's first column and the intra-column offset is 0.
C4_OffsetZeroAnchorsFirstColumn ==
    Placed =>
        LET first == AddedImages(call.ws, ws)[1]
        IN  /\ first.anchor.col = column_index_from_string(TARGET_CELL[1]) - 1
            /\ first.anchor.colOff = 0

\* C5 as stated: widths [80,80,80,80], 2 images: allocations [160,160] and
\* image 2 anchored at worksheet column C with intra-column offset 0.
C5_Original_SecondImageAtColumnC ==
    (Placed /\ Len(image_paths) >= 2
       /\ ColumnWidthsPx(call.ws, TARGET_COLUMNS) = <<80, 80, 80, 80>>) =>
        LET new == AddedImages(call.ws, ws)
        IN  /\ <<new[1].width, new[2].width>> = <<160, 160>>
            /\ new[2].anchor.col = column_index_from_string("C") - 1
            /\ new[2].anchor.colOff = 0

\* C5 amended: widths [80,80,80,80], 2 images: allocations [160,160] and
\* image 2 anchored at worksheet column D, the third column of the region
\* (zero-based column index 3), with intra-column offset 0.
C5_SecondImageAtColumnD ==
    (Placed /\ Len(image_paths) >= 2
       /\ ColumnWidthsPx(call.ws, TARGET_COLUMNS) = <<80, 80, 80, 80>>) =>
        LET new == AddedImages(call.ws, ws)
        IN  /\ <<new[1].width, new[2].width>> = <<160, 160>>
            /\ new[2].anchor.col = column_index_from_string("D") - 1
            /\ new[2].anchor.col = 3
            /\ new[2].anchor.colOff = 0
            /\ new[2].anchor.row = 18

C5_Witness ==
    /\ Placed /\ Len(image_paths) >= 2
    /\ ColumnWidthsPx(call.ws, TARGET_COLUMNS) = <<80, 80, 80, 80>>
    /\ Len(AddedImages(call.ws, ws)) = 2

-----------------------------------------------------------------------------
(* load_images_by_person                                                   *)

IsDigit(c) == \E i \in 1..Len(Digits) : Digits[i] = c
AllDigits(s) == \A i \in 1..Len(s) : IsDigit(s[i])

\* re.match(r"^(?P<name>.+?)(?P<index>\d+)?$", stem): the lazy group name is
\* the shortest non-empty prefix whose remainder is empty or all digits;
\* index is that remainder (the empty text stands for an unmatched group).
\* A stem of one character or more always matches; the stems modelled hold
\* no line break.
NameLen(stem) ==
    CHOOSE k \in 1..Len(stem) :
        /\ AllDigits(SubSeq(stem, k + 1, Len(stem)))
        /\ \A j \in 1..(k - 1) : ~AllDigits(SubSeq(stem, j + 1, Len(stem)))

PatternMatches(stem) == stem # <<>>
GroupName(stem) == SubSeq(stem, 1, NameLen(stem))
GroupIndex(stem) == SubSeq(stem, NameLen(stem) + 1, Len(stem))

\* str.strip() on the blank
RECURSIVE LStrip(_)
LStrip(s) == IF s # <<>> /\ Head(s) = " " THEN LStrip(Tail(s)) ELSE s
RECURSIVE RStrip(_)
RStrip(s) ==
    IF s # <<>> /\ s[Len(s)] = " " THEN RStrip(SubSeq(s, 1, Len(s) - 1)) ELSE s
Strip(s) == LStrip(RStrip(s))

\* int() of a text of decimal digits
DigitValue(c) == (CHOOSE i \in 1..Len(Digits) : Digits[i] = c) - 1
RECURSIVE ToInt(_)
ToInt(s) ==
    IF s = <<>> THEN 0
    ELSE ToInt(SubSeq(s, 1, Len(s) - 1)) * 10 + DigitValue(s[Len(s)])

\* path.suffix.lower() on the suffixes modelled
Lower(suffix) ==
    CASE suffix = ".PNG" -> ".png"
      [] suffix = ".JPG" -> ".jpg"
      [] OTHER -> suffix

ImageSuffixes == {".jpg", ".jpeg", ".png", ".bmp"}

\* name = match.group("name").strip()
PersonName(path) == Strip(GroupName(path.stem))

\* order = int(index_str) if index_str and index_str.isdigit() else 0
Order(path) ==
    LET index_str == GroupIndex(path.stem)
    IN  IF index_str # <<>> /\ AllDigits(index_str) THEN ToInt(index_str) ELSE 0

\* the three "continue" filters and the empty-name filter of the loop
Accepted(path) ==
    /\ path.is_file
    /\ Lower(path.suffix) \in ImageSuffixes
    /\ PatternMatches(path.stem)
    /\ PersonName(path) # <<>>

\* image_map[name].append((order, path)) on a dict kept in insertion order
AddItem(map, name, item) ==
    IF \E i \in 1..Len(map) : map[i].name = name
      THEN LET i == CHOOSE j \in 1..Len(map) : map[j].name = name
           IN  [map EXCEPT ![i].items = Append(@, item)]
      ELSE Append(map, [name |-> name, items |-> <<item>>])

RECURSIVE Collect(_, _)
Collect(listing, map) ==
    IF listing = <<>> THEN map
    ELSE LET path == Head(listing)
         IN  Collect(Tail(listing),
                     IF Accepted(path)
                       THEN AddItem(map, PersonName(path),
                                    <<Order(path), path>>)
                       ELSE map)

\* list.sort(key=lambda item: item[0]): stable, ascending
InsertStable(sorted, x) ==
    LET n == Cardinality({i \in 1..Len(sorted) : sorted[i][1] <= x[1]})
    IN  SubSeq(sorted, 1, n) \o <<x>> \o SubSeq(sorted, n + 1, Len(sorted))

RECURSIVE SortByOrder_descending(_)
SortByOrder_descending(items) ==
    IF items = <<>> THEN <<>>
    ELSE LET rest == SortByOrder_descending(SubSeq(items, 1, Len(items) - 1))
             x == items[Len(items)]
             n == Cardinality({i \in 1..Len(rest) : rest[i][1] >= x[1]})
         IN  SubSeq(rest, 1, n) \o <<x>> \o SubSeq(rest, n + 1, Len(rest))

RECURSIVE SortByOrder(_)
SortByOrder(items) ==
    IF items = <<>> THEN <<>>
    ELSE InsertStable(SortByOrder(SubSeq(items, 1, Len(items) - 1)),
                      items[Len(items)])

\* listing is images_dir.iterdir(), in the order the file system gives
load_images_by_person(listing) ==
    LET map == Collect(listing, <<>>)
    IN  [i \in 1..Len(map) |->
            [name |-> map[i].name, items |-> SortByOrder(map[i].items)]]

-----------------------------------------------------------------------------
(* SpecProcess: process_workbook                                           *)

MaxFiles == 3

DirEntries ==
    { File(<<"a">>, ".jpg"),
      File(<<"a", "1">>, ".jpg"),
      File(<<"a", "2">>, ".PNG"),
      File(<<"a", "0", "2">>, ".jpeg"),
      File(<<"a", " ", "3">>, ".png"),
      File(<<"b", "1">>, ".bmp"),
      File(<<"b", "2">>, ".jpg"),
      File(<<"1", "2">>, ".jpg"),
      File(<<" ", "1">>, ".jpg"),
      File(<<"a", "3">>, ".txt"),
      Directory(<<"a", "4">>, ".jpg") }

Directories == {d \in SUBSET DirEntries : Cardinality(d) <= MaxFiles}

\* the orders in which iterdir() may yield the entries of d
Listings(d) ==
    {l \in [1..Cardinality(d) -> d] :
        \A i, j \in 1..Cardinality(d) : i # j => l[i] # l[j]}

\* region profiles: default dimensions (252 x 60 px); every column 0.04
\* wide (0 px in total); columns 0, 0, 0 and 1 px wide; every row 0.2 pt
\* high (0 px in total)
Profiles ==
    { [column_dimensions |-> <<>>, row_dimensions |-> <<>>],
      [column_dimensions |-> [c \in {"B", "C", "D", "E"} |-> Some(4)],
       row_dimensions |-> <<>>],
      [column_dimensions |->
          [c \in {"B", "C", "D", "E"} |-> IF c = "E" THEN Some(5) ELSE Some(4)],
       row_dimensions |-> <<>>],
      [column_dimensions |-> <<>>,
       row_dimensions |-> [r \in {19, 20, 21} |-> Some(4)]] }

Sheet(profile, images) ==
    [column_dimensions |-> profile.column_dimensions,
     row_dimensions |-> profile.row_dimensions,
     images |-> images,
     cells |-> InitCells]

SheetLists == { << <<"a">> >>, << <<"c">>, <<"b">> >>, << <<"a">>, <<"b">> >> }

SheetSet(sheetnames) == {sheetnames[i] : i \in 1..Len(sheetnames)}

\* workbooks: the sheet "c" has default dimensions, every other sheet one
\* of the profiles; the first sheet may hold an image already
ProcessWorkbooks ==
    UNION { { [sheetnames |-> l,
               sheets |-> [n \in SheetSet(l) |->
                             Sheet(IF n = <<"c">>
                                     THEN [column_dimensions |-> <<>>,
                                           row_dimensions |-> <<>>]
                                     ELSE pr[n],
                                   IF n = l[1] THEN old ELSE <<>>)]] :
                pr \in [SheetSet(l) -> Profiles],
                old \in {<<>>, <<OldImage>>} } :
            l \in SheetLists }

ProcessIdle ==
    /\ call = Idle /\ ret = Idle /\ ws = Idle /\ image_paths = Idle
    /\ info_ws = Idle /\ entries = Idle /\ existing_names = Idle
    /\ sheet_names = Idle

InitProcess ==
    /\ pc = "start"
    /\ images_dir \in Directories
    /\ file \in ProcessWorkbooks
    /\ file0 = file
    /\ wb = Idle
    /\ image_map = Idle
    /\ names = Idle
    /\ ProcessIdle

\* image_map = load_images_by_person(images_dir)
LoadImagesByPerson ==
    /\ pc = "start"
    /\ \E listing \in Listings(images_dir) :
          image_map' = load_images_by_person(listing)
    /\ pc' = "images_loaded"
    /\ UNCHANGED <<call, ret, ws, image_paths, file, file0, wb, images_dir,
                   names, info_ws, entries, existing_names, sheet_names>>

\* wb = openpyxl.load_workbook(workbook_path); the loop starts
LoadWorkbook ==
    /\ pc = "images_loaded"
    /\ wb' = file
    /\ names' = [i \in 1..Len(image_map) |-> image_map[i].name]
    /\ pc' = "loop"
    /\ UNCHANGED <<call, ret, ws, image_paths, file, file0, images_dir,
                   image_map, info_ws, entries, existing_names, sheet_names>>

ItemsOf(map, name) ==
    map[CHOOSE i \in 1..Len(map) : map[i].name = name].items

\* "if len(ordered_paths) < 2: continue"
TooFew_one(ordered_paths) == Len(ordered_paths) < 1

TooFew(ordered_paths) == Len(ordered_paths) < 2

\* first_two = [path for _, path in ordered_paths[:2]]
FirstTwo(ordered_paths) ==
    [i \in 1..Min(Len(ordered_paths), 2) |-> ordered_paths[i][2]]

\* one iteration of "for name, ordered_paths in image_map.items()"
VisitPerson ==
    /\ pc = "loop"
    /\ names # <<>>
    /\ LET name == Head(names)
           ordered_paths == ItemsOf(image_map, name)
       IN  IF name \notin SheetSet(wb.sheetnames) THEN wb' = wb
           ELSE IF TooFew(ordered_paths) THEN wb' = wb
           ELSE wb' = [wb EXCEPT !.sheets[name] =
                          insert_images_to_sheet(@, FirstTwo(ordered_paths),
                              TARGET_CELL, TARGET_COLUMNS, TARGET_ROWS)]
    /\ names' = Tail(names)
    /\ UNCHANGED <<pc, call, ret, ws, image_paths, file, file0, images_dir,
                   image_map, info_ws, entries, existing_names, sheet_names>>

\* wb.save(workbook_path); wb.close()
SaveWorkbook ==
    /\ pc = "loop"
    /\ names = <<>>
    /\ file' = wb
    /\ pc' = "done"
    /\ UNCHANGED <<call, ret, ws, image_paths, file0, wb, images_dir,
                   image_map, names, info_ws, entries, existing_names,
                   sheet_names>>

NextProcess ==
    LoadImagesByPerson \/ LoadWorkbook \/ VisitPerson \/ SaveWorkbook

SpecProcess == InitProcess /\ [][NextProcess]_vars

\* the image files of the directory that match a sheet name
Matching(name) == {f \in images_dir : Accepted(f) /\ PersonName(f) = name}

ProcessDone == pc = "done"

\* C7: a sheet receives insertions only if its name has >= 2 matching image
\* files; every sheet whose name has 0 or 1 matching image is left unchanged,
\* no sheet is added or removed (an image name with no same-named sheet
\* changes nothing), and no cell of any sheet changes.
C7_TwoImagePolicy ==
    ProcessDone =>
        /\ file.sheetnames = file0.sheetnames
        /\ DOMAIN file.sheets = DOMAIN file0.sheets
        /\ \A n \in DOMAIN file0.sheets :
              /\ file.sheets[n].cells = file0.sheets[n].cells
              /\ file.sheets[n].column_dimensions
                    = file0.sheets[n].column_dimensions
              /\ file.sheets[n].row_dimensions = file0.sheets[n].row_dimensions
              /\ Cardinality(Matching(n)) < 2 =>
                    file.sheets[n] = file0.sheets[n]

\* sheet "a", with two matching images, was filled while sheet "b", with
\* one matching image, was left as it was
C7_Witness ==
    /\ ProcessDone
    /\ file0.sheetnames = << <<"a">>, <<"b">> >>
    /\ Cardinality(Matching(<<"b">>)) = 1
    /\ Cardinality(Matching(<<"a">>)) = 2
    /\ Len(file.sheets[<<"a">>].images) = Len(file0.sheets[<<"a">>].images) + 2
    /\ file.sheets[<<"b">>] = file0.sheets[<<"b">>]

\* what C8 says of the sheet named n
SelectionAndOrder(n) ==
    LET new == AddedImages(file0.sheets[n], file.sheets[n])
    IN  /\ Len(new) = 2
        /\ new[1].src \in Matching(n) /\ new[2].src \in Matching(n)
        /\ new[1].src # new[2].src
        /\ Order(new[1].src) <= Order(new[2].src)
        /\ \A g \in Matching(n) \ {new[1].src, new[2].src} :
              Order(new[2].src) <= Order(g)
        /\ AbsPos(file.sheets[n], new[1].anchor) = 0
        /\ new[1].width >= 1
        /\ AbsPos(file.sheets[n], new[2].anchor) = new[1].width

\* C8 as stated: for a person with k >= 2 matching image files exactly 2
\* images are added to the person's sheet, the two with the smallest
\* trailing numeric suffix, the smaller at offset 0 and the larger to its
\* right.
C8_Original_TwoSmallestAlwaysPlaced ==
    ProcessDone =>
        \A n \in DOMAIN file0.sheets :
            Cardinality(Matching(n)) >= 2 => SelectionAndOrder(n)

\* C8 amended: the same, for a person whose sheet's region measures at
\* least 2 pixels in width and 1 pixel in height.
C8_TwoSmallestPlacedInOrder ==
    ProcessDone =>
        \A n \in DOMAIN file0.sheets :
            (/\ Cardinality(Matching(n)) >= 2
             /\ TotalWidthPx(file0.sheets[n]) >= 2
             /\ TotalHeightPx(file0.sheets[n]) >= 1) => SelectionAndOrder(n)

\* three files of person "a" with suffixes 0, 2 and 3: the third is ignored
C8_Witness ==
    /\ ProcessDone
    /\ images_dir = { File(<<"a", " ", "3">>, ".png"),
                      File(<<"a", "2">>, ".PNG"),
                      File(<<"a">>, ".jpg") }
    /\ <<"a">> \in DOMAIN file0.sheets
    /\ LET new == AddedImages(file0.sheets[<<"a">>], file.sheets[<<"a">>])
       IN  /\ Len(new) = 2
           /\ new[1].src = File(<<"a">>, ".jpg")
           /\ new[2].src = File(<<"a", "2">>, ".PNG")

-----------------------------------------------------------------------------
(* SpecPrune: remove_sheets                                                *)

MaxSheets == 3

PruneNames == { <<"A">>, <<"B">>, <<"C">>, <<"D">> }

NamedSheet(n) ==
    [column_dimensions |-> <<>>, row_dimensions |-> <<>>, images |-> <<>>,
     cells |-> [c \in {"A1", "B19"} |-> n]]

PruneWorkbooks ==
    UNION { { [sheetnames |-> l, sheets |-> [n \in SheetSet(l) |-> NamedSheet(n)]] :
                l \in {q \in [1..k -> PruneNames] :
                         \A i, j \in 1..k : i # j => q[i] # q[j]} } :
            k \in 1..MaxSheets }

\* sheet_names[1:]
ExtraSheets_fromThird(all_names) == SubSeq(all_names, 3, Len(all_names))

ExtraSheets(all_names) == SubSeq(all_names, 2, Len(all_names))

\* del wb[name]
WithoutName(q, drop) ==
    LET keep == {i \in 1..Len(q) : q[i] # drop}
        RECURSIVE Build(_)
        Build(i) == IF i > Len(q) THEN <<>>
                    ELSE IF i \in keep THEN <<q[i]>> \o Build(i + 1)
                    ELSE Build(i + 1)
    IN  Build(1)

RemoveSheet(book, name) ==
    [sheetnames |-> WithoutName(book.sheetnames, name),
     sheets |-> [n \in (DOMAIN book.sheets) \ {name} |-> book.sheets[n]]]

PruneIdle ==
    /\ call = Idle /\ ret = Idle /\ ws = Idle /\ image_paths = Idle
    /\ images_dir = Idle /\ image_map = Idle /\ names = Idle
    /\ info_ws = Idle /\ entries = Idle /\ existing_names = Idle

InitPrune ==
    /\ pc = "start"
    /\ file \in PruneWorkbooks
    /\ file0 = file
    /\ wb = Idle
    /\ sheet_names = Idle
    /\ PruneIdle

\* wb = openpyxl.load_workbook(workbook_path); sheet_names = wb.sheetnames
PruneLoad ==
    /\ pc = "start"
    /\ wb' = file
    /\ sheet_names' = ExtraSheets(file.sheetnames)
    /\ pc' = "loop"
    /\ UNCHANGED <<call, ret, ws, image_paths, file, file0, images_dir,
                   image_map, names, info_ws, entries, existing_names>>

\* one iteration of "for name in sheet_names[1:]: del wb[name]"
DeleteSheet ==
    /\ pc = "loop"
    /\ sheet_names # <<>>
    /\ wb' = RemoveSheet(wb, Head(sheet_names))
    /\ sheet_names' = Tail(sheet_names)
    /\ UNCHANGED <<pc, call, ret, ws, image_paths, file, file0, images_dir,
                   image_map, names, info_ws, entries, existing_names>>

\* wb.save(workbook_path); wb.close()
PruneSave ==
    /\ pc = "loop"
    /\ sheet_names = <<>>
    /\ file' = wb
    /\ pc' = "done"
    /\ UNCHANGED <<call, ret, ws, image_paths, file0, wb, images_dir,
                   image_map, names, info_ws, entries, existing_names,
                   sheet_names>>

NextPrune == PruneLoad \/ DeleteSheet \/ PruneSave

SpecPrune == InitPrune /\ [][NextPrune]_vars

\* C10: for a workbook with n >= 1 sheets, after the run the workbook holds
\* exactly one sheet, the one that was first before the run.
C10_OnlyFirstSheetRemains ==
    pc = "done" =>
        /\ file.sheetnames = <<file0.sheetnames[1]>>
        /\ DOMAIN file.sheets = {file0.sheetnames[1]}
        /\ file.sheets[file0.sheetnames[1]]
              = file0.sheets[file0.sheetnames[1]]

\* [A, B, C] leaves only [A]
C10_Witness ==
    /\ pc = "done"
    /\ file0.sheetnames = << <<"A">>, <<"B">>, <<"C">> >>
    /\ file.sheetnames = << <<"A">> >>

-----------------------------------------------------------------------------
(* SpecRoster: create_person_sheets.main                                   *)
(* A roster cell is a text; the empty text stands for an empty cell, which *)
(* the code treats like the empty string at each of its uses.              *)

MaxRows == 2

\* stands for the template sheet's name
TEMPLATE_SHEET_NAME == <<"t">>

\* extract_digits: "".join(re.findall(r"\d", str(value).strip()))
RECURSIVE DigitsOf(_)
DigitsOf(text) ==
    IF text = <<>> THEN <<>>
    ELSE IF IsDigit(Head(text)) THEN <<Head(text)>> \o DigitsOf(Tail(text))
    ELSE DigitsOf(Tail(text))

extract_digits(value) == IF value = <<>> THEN <<>> ELSE DigitsOf(Strip(value))

\* the body of the loop over info_ws.iter_rows(min_row=3, min_col=3, max_col=5)
RECURSIVE ReadEntries(_)
ReadEntries(rows) ==
    IF rows = <<>> THEN <<>>
    ELSE
      LET name == Head(rows)[1]
          soldier_id == Head(rows)[2]
          id_card == Head(rows)[3]
          rest == ReadEntries(Tail(rows))
      IN  IF name = <<>> THEN rest
          ELSE IF Strip(name) = <<>> THEN rest
          ELSE << <<Strip(name), extract_digits(soldier_id),
                    IF id_card # <<>> THEN Strip(id_card) ELSE <<>> >> >>
                 \o rest

RosterNames == { <<>>, <<" ">>, <<"a">>, <<" ", "a">>, <<"t">> }
RosterData ==
    { << <<"x", "1", "-", "2">>, <<" ", "8", " ">> >>,
      << <<>>, <<"9">> >>,
      << <<" ", "3">>, <<>> >> }
RosterRows == {<<n, d[1], d[2]>> : n \in RosterNames, d \in RosterData}
Rosters == UNION {[1..k -> RosterRows] : k \in 0..MaxRows}

RosterCells == {"A1", "B3", "D3", "B4"}

\* a sheet of the target workbook before the run: every cell holds a value
\* of its own
TargetSheet(n) ==
    [column_dimensions |-> <<>>, row_dimensions |-> <<>>, images |-> <<>>,
     cells |-> [c \in RosterCells |-> n \o <<"#", c>>]]

TargetSheetLists ==
    { << <<"t">> >>, << <<"t">>, <<"a">> >>, << <<"a">> >>,
      << <<"b">>, <<"t">>, <<"a">> >> }

TargetWorkbooks ==
    { [sheetnames |-> l, sheets |-> [n \in SheetSet(l) |-> TargetSheet(n)]] :
        l \in TargetSheetLists }

RosterIdle ==
    /\ call = Idle /\ ret = Idle /\ ws = Idle /\ image_paths = Idle
    /\ images_dir = Idle /\ image_map = Idle /\ names = Idle
    /\ sheet_names = Idle

InitRoster ==
    /\ pc = "start"
    /\ info_ws \in Rosters
    /\ file \in TargetWorkbooks
    /\ file0 = file
    /\ wb = Idle
    /\ entries = Idle
    /\ existing_names = Idle
    /\ RosterIdle

\* the roster is read into entries
ReadRoster ==
    /\ pc = "start"
    /\ entries' = ReadEntries(info_ws)
    /\ pc' = "read"
    /\ UNCHANGED <<call, ret, ws, image_paths, file, file0, wb, images_dir,
                   image_map, names, info_ws, existing_names, sheet_names>>

\* target_wb is loaded; the template sheet is there
OpenTarget ==
    /\ pc = "read"
    /\ TEMPLATE_SHEET_NAME \in SheetSet(file.sheetnames)
    /\ wb' = file
    /\ existing_names' = SheetSet(file.sheetnames)
    /\ pc' = "loop"
    /\ UNCHANGED <<call, ret, ws, image_paths, file, file0, images_dir,
                   image_map, names, info_ws, entries, sheet_names>>

\* target_wb is loaded; raise ValueError: the template sheet is missing
TemplateMissing ==
    /\ pc = "read"
    /\ TEMPLATE_SHEET_NAME \notin SheetSet(file.sheetnames)
    /\ wb' = file
    /\ pc' = "failed"
    /\ UNCHANGED <<call, ret, ws, image_paths, file, file0, images_dir,
                   image_map, names, info_ws, entries, existing_names,
                   sheet_names>>

\* ws = target_wb.copy_worksheet(template_ws); ws.title = name
CopyWorksheet(book, name) ==
    [sheetnames |-> Append(book.sheetnames, name),
     sheets |-> [n \in (DOMAIN book.sheets) \cup {name} |->
                    IF n = name THEN book.sheets[TEMPLATE_SHEET_NAME]
                                ELSE book.sheets[n]]]

\* existing_names.add(name)
AddExisting_forgets(existing, name) == existing

AddExisting(existing, name) == existing \cup {name}

\* ws["B3"].value = name; ws["D3"].value = soldier_id; ws["B4"].value = id_card
WriteFields(sheet, name, soldier_id, id_card) ==
    [sheet EXCEPT !.cells = [c \in DOMAIN @ |->
        CASE c = "B3" -> name
          [] c = "D3" -> soldier_id
          [] c = "B4" -> id_card
          [] OTHER -> @[c]]]

\* one iteration of "for name, soldier_id, id_card in entries"
WriteEntry ==
    /\ pc = "loop"
    /\ entries # <<>>
    /\ LET name == Head(entries)[1]
           soldier_id == Head(entries)[2]
           id_card == Head(entries)[3]
           book == IF name \notin existing_names
                     THEN CopyWorksheet(wb, name) ELSE wb
       IN  /\ wb' = [book EXCEPT !.sheets[name] =
                        WriteFields(@, name, soldier_id, id_card)]
           /\ existing_names' =
                 IF name \notin existing_names
                   THEN AddExisting(existing_names, name)
                   ELSE existing_names
    /\ entries' = Tail(entries)
    /\ UNCHANGED <<pc, call, ret, ws, image_paths, file, file0, images_dir,
                   image_map, names, info_ws, sheet_names>>

\* target_wb.save(TARGET_FILE); target_wb.close()
SaveTarget ==
    /\ pc = "loop"
    /\ entries = <<>>
    /\ file' = wb
    /\ pc' = "done"
    /\ UNCHANGED <<call, ret, ws, image_paths, file0, wb, images_dir,
                   image_map, names, info_ws, entries, existing_names,
                   sheet_names>>

NextRoster ==
    ReadRoster \/ OpenTarget \/ TemplateMissing \/ WriteEntry \/ SaveTarget

SpecRoster == InitRoster /\ [][NextRoster]_vars

\* roster rows whose name is not empty
NamedRows == {i \in 1..Len(info_ws) : Strip(info_ws[i][1]) # <<>>}

Occurrences(q, x) == Cardinality({i \in 1..Len(q) : q[i] = x})

\* the sheet of roster row i holds the fields of roster row j
HoldsRow(i, j) ==
    LET cells == file.sheets[Strip(info_ws[i][1])].cells
    IN  /\ cells["B3"] = Strip(info_ws[j][1])
        /\ AllDigits(cells["D3"])
        /\ cells["D3"] = DigitsOf(info_ws[j][2])
        /\ cells["B4"] = Strip(info_ws[j][3])

\* no sheet is lost or reordered, clones follow the sheets that were there,
\* and a sheet that was there keeps every cell other than B3, D3 and B4
\* (every cell, when no roster row names it)
RosterFrame ==
    /\ SubSeq(file.sheetnames, 1, Len(file0.sheetnames)) = file0.sheetnames
    /\ \A n \in DOMAIN file0.sheets :
          \A c \in RosterCells :
              (c \notin {"B3", "D3", "B4"}
                 \/ ~\E i \in NamedRows : Strip(info_ws[i][1]) = n)
              => file.sheets[n].cells[c] = file0.sheets[n].cells[c]
    /\ \A n \in (DOMAIN file.sheets) \ (DOMAIN file0.sheets) :
          /\ \E i \in NamedRows : Strip(info_ws[i][1]) = n
          /\ file.sheets[n].cells["A1"]
                = file0.sheets[TEMPLATE_SHEET_NAME].cells["A1"]

=============================================================================
